---- MODULE Spec2Model ----
(***************************************************************************)
(* State-machine model of the cosmos-chess contract (src/src/contract.rs). *)
(* Every execute_* / query_* entry point is one action.  A failing entry   *)
(* point returns Err, and the host discards every write of that call, so   *)
(* a failure changes nothing but the recorded reply.                       *)
(***************************************************************************)
EXTENDS Integers, Sequences, FiniteSets, TLC

\* ------------------------------------------------------------------ bounds
MaxChallenges == 2
MaxPlayChallenges == 1
MaxRatedGames == 1
MaxGames == 2
MaxHeight == 1
MaxMoves == 2
MaxLimit == 0
\* the listing queries run on stores of up to MaxShort or of PageSize to
\* MaxList entities, and a client pages through a listing in at most MaxCalls
\* calls
MaxList == 27
MaxShort == 2
MaxCalls == 3

\* ------------------------------------------------------------------ values
\* Option<T>: None is the empty sequence, Some(x) the one-element sequence.
None == <<>>
Some(x) == <<x>>

\* Identities that pass addr_validate, and one string that does not.
Addrs == {"alice", "bob", "carol"}
BadAddr == "x"
AddrStrings == Addrs \cup {BadAddr}

Colors == {"White", "Black"}
PlayAs == {None} \cup {Some(c) : c \in Colors}
BlockLimits == {None} \cup {Some(n) : n \in 0..MaxLimit}

\* Move notations offered to the legality oracle.
MoveStrs == {"e4", "Qh5#", "stalemate", "zz"}
ActionTypes == {"Move", "Resign", "OfferDraw", "AcceptDraw", "DeclineDraw"}
Actions == [type : {"Move"}, mv : MoveStrs] \cup [type : ActionTypes \ {"Move"}, mv : {""}]

ChallengeIds == 1..MaxChallenges
GameIds == 1..MaxGames

\* the starting position; the board encoding is abstracted to the number of
\* half-moves played from it (which fixes the side to move).
DEFAULT_FEN == 0

\* EloRating::new()
DefaultRating == 1200
\* EloConfig::new()
EloK == 32
EloFloor == 100

VARIABLES challenges, games, ratings, challenge_count, game_count, height, last, consumed, origin, rated, involved

store == <<challenges, games, ratings, challenge_count, game_count>>
hist == <<consumed, origin, rated, involved>>
vars == <<challenges, games, ratings, challenge_count, game_count, height, last, consumed, origin, rated, involved>>

\* ------------------------------------------------------------------ helpers
Remove(f, k) == [x \in DOMAIN f \ {k} |-> f[x]]
Put(f, k, v) == [x \in DOMAIN f \cup {k} |-> IF x = k THEN v ELSE f[x]]

Reply(op, caller, id, res) == [op |-> op, caller |-> caller, id |-> id, res |-> res]

\* deps.api.addr_validate: Ok for a well-formed address, Err otherwise
addr_validate(s) == IF s \in Addrs THEN "ok" ELSE "StdError"

\* state.rs counters: the next id is one more than the number handed out
next_challenge_id(n) == n + 1
next_game_id(n) == n + 1

\* ------------------------------------------------------------------ ratings
def_player_rating_Never(rt, addr) == rt
def_player_rating(rt, addr) == IF addr \notin DOMAIN rt THEN Put(rt, addr, DefaultRating) ELSE rt

get_player_rating(rt, addr) == IF addr \in DOMAIN rt THEN rt[addr] ELSE DefaultRating

update_player_rating(rt, addr, rating) == Put(rt, addr, rating)

\* elo.rs: expected score of the first player, in thousandths, from the
\* rating difference d = r1 - r2 (logistic curve on d / 400, tabulated)
ExpectedUp(d) == IF d < 25 THEN 500 ELSE IF d < 75 THEN 571 ELSE IF d < 150 THEN 640 ELSE IF d < 300 THEN 760 ELSE 909
Expected(d) == IF d >= 0 THEN ExpectedUp(d) ELSE 1000 - ExpectedUp(0 - d)
Actual(outcome) == CASE outcome = "WIN" -> 1000 [] outcome = "DRAW" -> 500 [] OTHER -> 0
\* K * (actual - expected), rounded toward zero
EloDelta(r1, r2, outcome) ==
  LET x == EloK * (Actual(outcome) - Expected(r1 - r2))
  IN IF x >= 0 THEN x \div 1000 ELSE 0 - ((0 - x) \div 1000)
Clamp(r) == IF r < EloFloor THEN EloFloor ELSE r
elo(r1, r2, outcome) == <<Clamp(r1 + EloDelta(r1, r2, outcome)), Clamp(r2 - EloDelta(r1, r2, outcome))>>

update_players_rating(rt, game, outcome) ==
  LET r == elo(get_player_rating(rt, game.player1), get_player_rating(rt, game.player2), outcome)
  IN update_player_rating(update_player_rating(rt, game.player1, r[1]), game.player2, r[2])

\* ------------------------------------------------------------------ games
\* cwchess.rs: player1 is White and player2 is Black; White moves first and
\* the side to move changes with every accepted move
turn_color(game) == IF game.fen % 2 = 0 THEN "White" ELSE "Black"
player_color(game, player) == IF player = game.player1 THEN "White" ELSE "Black"
other_color(c) == IF c = "White" THEN "Black" ELSE "White"

\* the move-legality oracle: "zz" is never legal, the others always are
legal_move(fen, mv) == mv # "zz"
\* game-over detection after a legal move by color c
move_status(c, mv) ==
  IF mv = "Qh5#" THEN Some(IF c = "White" THEN "WhiteCheckmates" ELSE "BlackCheckmates")
  ELSE IF mv = "stalemate" THEN Some("Stalemate")
  ELSE None

Ok(game) == [err |-> "ok", game |-> game]
Err(e, game) == [err |-> e, game |-> game]

\* cwchess.rs make_move(player, (height, action)) on a loaded game
make_move(game, player, h, action) ==
  LET c == player_color(game, player)
      logged == [game EXCEPT !.moves = Append(@, <<h, action>>)]
  IN IF game.status # None THEN Err("GameAlreadyOver", game)
     ELSE IF player \notin {game.player1, game.player2} THEN Err("NotYourTurn", game)
     ELSE CASE action.type = "Move" ->
                 IF c # turn_color(game) THEN Err("NotYourTurn", game)
                 ELSE IF ~legal_move(game.fen, action.mv) THEN Err("InvalidMove", game)
                 ELSE Ok([logged EXCEPT !.fen = @ + 1, !.status = move_status(c, action.mv), !.draw_offer = None])
            [] action.type = "Resign" ->
                 Ok([logged EXCEPT !.status = Some(IF c = "White" THEN "WhiteResigns" ELSE "BlackResigns")])
            [] action.type = "OfferDraw" ->
                 IF game.draw_offer # None THEN Err("InvalidMove", game)
                 ELSE Ok([logged EXCEPT !.draw_offer = Some(c)])
            [] action.type = "AcceptDraw" ->
                 IF game.draw_offer # Some(other_color(c)) THEN Err("NotYourTurn", game)
                 ELSE Ok([logged EXCEPT !.status = Some("DrawAccepted")])
            [] OTHER ->
                 IF game.draw_offer # Some(other_color(c)) THEN Err("NotYourTurn", game)
                 ELSE Ok([logged EXCEPT !.draw_offer = None])

\* the tick the current timeout window started at
last_tick(game) == IF game.moves = <<>> THEN game.block_start ELSE game.moves[Len(game.moves)][1]

\* cwchess.rs check_timeout(height): Err on a finished game, Ok(None) inside
\* the budget, Ok(Some(tag)) with the status set once the budget is exceeded
check_timeout(game, h) ==
  IF game.status # None THEN Err("GameAlreadyOver", game)
  ELSE IF game.block_limit # None /\ h - last_tick(game) > game.block_limit[1]
       THEN Ok([game EXCEPT !.status = Some(IF turn_color(game) = "White" THEN "WhiteTimeout" ELSE "BlackTimeout")])
       ELSE Ok(game)

\* cwchess.rs valid_move(player, move): Err unless the game is ongoing and it
\* is the player's turn, otherwise Ok(legality)
valid_move(game, player, mv) ==
  IF game.status # None THEN "GameAlreadyOver"
  ELSE IF player \notin {game.player1, game.player2} \/ player_color(game, player) # turn_color(game) THEN "NotYourTurn"
  ELSE IF legal_move(game.fen, mv) THEN "true" ELSE "false"

\* cwchess.rs get_turn(player): Err on a finished game
get_turn(game, player) ==
  IF game.status # None THEN "GameAlreadyOver"
  ELSE IF player \in {game.player1, game.player2} /\ player_color(game, player) = turn_color(game) THEN "true" ELSE "false"

\* the closure of games_map.update in execute_turn
turn_update(gs, player, h, action, game_id) ==
  IF game_id \notin DOMAIN gs THEN Err("GameNotFound", None)
  ELSE make_move(gs[game_id], player, h, action)

timeout_update_IgnoreErr(gs, h, game_id) ==
  IF game_id \notin DOMAIN gs THEN Err("GameNotFound", None)
  ELSE LET r == check_timeout(gs[game_id], h)
       IN IF r.game.status = None THEN Err("GameNotTimedOut", r.game) ELSE Ok(r.game)

timeout_update_AcceptEarly(gs, h, game_id) ==
  IF game_id \notin DOMAIN gs THEN Err("GameNotFound", None)
  ELSE check_timeout(gs[game_id], h)

\* the closure of games_map.update in execute_declare_timeout
timeout_update(gs, h, game_id) ==
  IF game_id \notin DOMAIN gs THEN Err("GameNotFound", None)
  ELSE LET r == check_timeout(gs[game_id], h)
       IN IF r.err # "ok" THEN r
          ELSE IF r.game.status = None THEN Err("GameNotTimedOut", r.game)
          ELSE r

outcome_of_ResignsSwapped(status) ==
  CASE status \in {"WhiteCheckmates", "WhiteResigns", "BlackTimeout"} -> "WIN"
    [] status \in {"BlackCheckmates", "BlackResigns", "WhiteTimeout"} -> "LOSS"
    [] OTHER -> "DRAW"

\* the status match of execute_turn
outcome_of(status) ==
  CASE status \in {"WhiteCheckmates", "BlackResigns", "BlackTimeout"} -> "WIN"
    [] status \in {"BlackCheckmates", "WhiteResigns", "WhiteTimeout"} -> "LOSS"
    [] OTHER -> "DRAW"

turn_ratings_EveryTurn(rt, game) ==
  update_players_rating(rt, game, IF game.status # None THEN outcome_of(game.status[1]) ELSE "WIN")

\* the rating step of execute_turn, on the game the update returned
turn_ratings(rt, game) ==
  IF game.status # None THEN update_players_rating(rt, game, outcome_of(game.status[1])) ELSE rt

\* the rating step of execute_declare_timeout: there is none
timeout_ratings(rt, game) == rt

\* ------------------------------------------------------------------ challenges
\* cwchess.rs get_player_order: (player1, player2) = (White, Black)
get_player_order(creator, acceptor, play_as, block_start) ==
  IF play_as = Some("White") THEN <<creator, acceptor>>
  ELSE IF play_as = Some("Black") THEN <<acceptor, creator>>
  ELSE IF block_start % 2 = 0 THEN <<creator, acceptor>> ELSE <<acceptor, creator>>

create_check_NoSelfCheck(created_by, opponent) ==
  IF opponent = None THEN "ok"
  ELSE IF addr_validate(opponent[1]) # "ok" THEN "StdError"
  ELSE "ok"

\* the opponent match of execute_create_challenge
create_check(created_by, opponent) ==
  IF opponent = None THEN "ok"
  ELSE IF addr_validate(opponent[1]) # "ok" THEN "StdError"
  ELSE IF created_by = opponent[1] THEN "CannotPlaySelf"
  ELSE "ok"

accept_check_OpponentFirst(chs, player, challenge_id) ==
  IF challenge_id \notin DOMAIN chs THEN "ChallengeNotFound"
  ELSE IF chs[challenge_id].opponent # None /\ chs[challenge_id].opponent[1] # player THEN "NotYourChallenge"
  ELSE IF chs[challenge_id].created_by = player THEN "CannotPlaySelf"
  ELSE "ok"

accept_check_NoSelfCheck(chs, player, challenge_id) ==
  IF challenge_id \notin DOMAIN chs THEN "ChallengeNotFound"
  ELSE IF chs[challenge_id].opponent # None /\ chs[challenge_id].opponent[1] # player THEN "NotYourChallenge"
  ELSE "ok"

\* the challenge match of execute_accept_challenge
accept_check(chs, player, challenge_id) ==
  IF challenge_id \notin DOMAIN chs THEN "ChallengeNotFound"
  ELSE IF chs[challenge_id].created_by = player THEN "CannotPlaySelf"
  ELSE IF chs[challenge_id].opponent # None /\ chs[challenge_id].opponent[1] # player THEN "NotYourChallenge"
  ELSE "ok"

cancel_check_OpponentMayCancel(chs, player, challenge_id) ==
  IF challenge_id \notin DOMAIN chs THEN "ChallengeNotFound"
  ELSE IF chs[challenge_id].created_by # player /\ chs[challenge_id].opponent # Some(player) THEN "NotYourChallenge"
  ELSE "ok"

\* the challenge match of execute_cancel_challenge
cancel_check(chs, player, challenge_id) ==
  IF challenge_id \notin DOMAIN chs THEN "ChallengeNotFound"
  ELSE IF chs[challenge_id].created_by # player THEN "NotYourChallenge"
  ELSE "ok"

\* challenges_map.remove
remove_challenge_Keep(chs, challenge_id) == chs
remove_challenge(chs, challenge_id) == Remove(chs, challenge_id)

\* query_get_challenge: the load fails for an id that is not stored
query_get_challenge(chs, challenge_id) == IF challenge_id \in DOMAIN chs THEN "ok" ELSE "StdError"

new_challenge(block_created, block_limit, challenge_id, created_by, opponent, play_as) ==
  [block_created |-> block_created, block_limit |-> block_limit, challenge_id |-> challenge_id,
   created_by |-> created_by, opponent |-> opponent, play_as |-> play_as]

new_game_StartAtCreation(challenge, block_start, game_id, player) ==
  LET order == get_player_order(challenge.created_by, player, challenge.play_as, block_start)
  IN [block_limit |-> challenge.block_limit, block_start |-> challenge.block_created, fen |-> DEFAULT_FEN,
      game_id |-> game_id, player1 |-> order[1], player2 |-> order[2], moves |-> <<>>,
      status |-> None, draw_offer |-> None]

new_game_OrderAtCreation(challenge, block_start, game_id, player) ==
  LET order == get_player_order(challenge.created_by, player, challenge.play_as, challenge.block_created)
  IN [block_limit |-> challenge.block_limit, block_start |-> block_start, fen |-> DEFAULT_FEN,
      game_id |-> game_id, player1 |-> order[1], player2 |-> order[2], moves |-> <<>>,
      status |-> None, draw_offer |-> None]

new_game(challenge, block_start, game_id, player) ==
  LET order == get_player_order(challenge.created_by, player, challenge.play_as, block_start)
  IN [block_limit |-> challenge.block_limit, block_start |-> block_start, fen |-> DEFAULT_FEN,
      game_id |-> game_id, player1 |-> order[1], player2 |-> order[2], moves |-> <<>>,
      status |-> None, draw_offer |-> None]

create_ratings(rt, created_by, opponent) ==
  IF opponent = None THEN def_player_rating(rt, created_by)
  ELSE def_player_rating(def_player_rating(rt, created_by), opponent[1])

\* what has consumed challenge id so far
Events(log, id) == IF id \in DOMAIN log THEN log[id] ELSE <<>>

Fail(op, caller, id, res) ==
  /\ last' = Reply(op, caller, id, res)
  /\ UNCHANGED <<store, hist, height>>

\* a host that kept the writes of a failed call
execute_create_challenge_NoRollback(sender, block_limit, opponent, play_as) ==
  LET challenge_id == next_challenge_id(challenge_count)
      res == create_check(sender, opponent)
  IN IF res # "ok"
     THEN /\ challenge_count' = challenge_id
          /\ last' = Reply("create_challenge", sender, 0, res)
          /\ UNCHANGED <<challenges, games, ratings, game_count, height, hist>>
     ELSE /\ challenge_count' = challenge_id
          /\ challenges' = Put(challenges, challenge_id, new_challenge(height, block_limit, challenge_id, sender, opponent, play_as))
          /\ ratings' = create_ratings(ratings, sender, opponent)
          /\ involved' = involved \cup {sender} \cup (IF opponent = None THEN {} ELSE {opponent[1]})
          /\ last' = Reply("create_challenge", sender, challenge_id, "ok")
          /\ UNCHANGED <<games, game_count, height, consumed, origin, rated>>

\* next_challenge_id advances the stored counter before the opponent is
\* checked; when the check fails that write is discarded with the call
execute_create_challenge(sender, block_limit, opponent, play_as) ==
  LET challenge_id == next_challenge_id(challenge_count)
      res == create_check(sender, opponent)
  IN IF res # "ok" THEN Fail("create_challenge", sender, 0, res)
     ELSE /\ challenge_count' = challenge_id
          /\ challenges' = Put(challenges, challenge_id, new_challenge(height, block_limit, challenge_id, sender, opponent, play_as))
          /\ ratings' = create_ratings(ratings, sender, opponent)
          /\ involved' = involved \cup {sender} \cup (IF opponent = None THEN {} ELSE {opponent[1]})
          /\ last' = Reply("create_challenge", sender, challenge_id, "ok")
          /\ UNCHANGED <<games, game_count, height, consumed, origin, rated>>

execute_accept_challenge(sender, challenge_id) ==
  LET res == accept_check(challenges, sender, challenge_id)
  IN IF res # "ok" THEN Fail("accept_challenge", sender, challenge_id, res)
     ELSE /\ LET game_id == next_game_id(game_count)
             IN /\ game_count' = game_id
                /\ ratings' = def_player_rating(ratings, sender)
                /\ games' = Put(games, game_id, new_game(challenges[challenge_id], height, game_id, sender))
                /\ challenges' = remove_challenge(challenges, challenge_id)
                /\ origin' = Put(origin, game_id, challenge_id)
                /\ rated' = Put(rated, game_id, 0)
                /\ last' = Reply("accept_challenge", sender, challenge_id, "ok")
          /\ consumed' = Put(consumed, challenge_id, Append(Events(consumed, challenge_id), "accepted"))
          /\ involved' = involved \cup {sender}
          /\ UNCHANGED <<challenge_count, height>>

execute_cancel_challenge(sender, challenge_id) ==
  LET res == cancel_check(challenges, sender, challenge_id)
  IN IF res # "ok" THEN Fail("cancel_challenge", sender, challenge_id, res)
     ELSE /\ challenges' = remove_challenge(challenges, challenges[challenge_id].challenge_id)
          /\ consumed' = Put(consumed, challenge_id, Append(Events(consumed, challenge_id), "cancelled"))
          /\ last' = Reply("cancel_challenge", sender, challenge_id, "ok")
          /\ UNCHANGED <<games, ratings, challenge_count, game_count, height, origin, rated, involved>>

execute_declare_timeout(game_id) ==
  LET r == timeout_update(games, height, game_id)
  IN IF r.err # "ok" THEN Fail("declare_timeout", "", game_id, r.err)
     ELSE /\ games' = [games EXCEPT ![game_id] = r.game]
          /\ ratings' = timeout_ratings(ratings, r.game)
          /\ last' = Reply("declare_timeout", "", game_id, "ok")
          /\ UNCHANGED <<challenges, challenge_count, game_count, height, hist>>

execute_turn(sender, action, game_id) ==
  LET r == turn_update(games, sender, height, action, game_id)
  IN IF r.err # "ok" THEN Fail("turn", sender, game_id, r.err)
     ELSE /\ Len(games[game_id].moves) < MaxMoves
          /\ games' = [games EXCEPT ![game_id] = r.game]
          /\ ratings' = turn_ratings(ratings, r.game)
          /\ rated' = [rated EXCEPT ![game_id] = IF r.game.status # None THEN @ + 1 ELSE @]
          /\ last' = Reply("turn", sender, game_id, "ok")
          /\ UNCHANGED <<challenges, challenge_count, game_count, height, consumed, origin, involved>>

\* the load and addr_validate steps propagate their error with `?`; only the
\* result of game.valid_move is downgraded to false
query_valid_move_result(gs, game_id, player, move_str) ==
  IF game_id \notin DOMAIN gs THEN "StdError"
  ELSE IF addr_validate(player) # "ok" THEN "StdError"
  ELSE IF valid_move(gs[game_id], player, move_str) = "true" THEN "true" ELSE "false"

query_get_turn_result_ErrIsTrue(gs, game_id, player) ==
  IF game_id \notin DOMAIN gs THEN "StdError"
  ELSE IF addr_validate(player) # "ok" THEN "StdError"
  ELSE IF get_turn(gs[game_id], player) = "false" THEN "false" ELSE "true"

query_get_turn_result(gs, game_id, player) ==
  IF game_id \notin DOMAIN gs THEN "StdError"
  ELSE IF addr_validate(player) # "ok" THEN "StdError"
  ELSE IF get_turn(gs[game_id], player) = "true" THEN "true" ELSE "false"

query_valid_move(game_id, player, move_str) ==
  /\ last' = Reply("valid_move", player, game_id, query_valid_move_result(games, game_id, player, move_str))
  /\ UNCHANGED <<store, hist, height>>

query_get_turn(game_id, player) ==
  /\ last' = Reply("get_turn", player, game_id, query_get_turn_result(games, game_id, player))
  /\ UNCHANGED <<store, hist, height>>

\* ------------------------------------------------------------------ listings
\* the page size of every listing (.take(25))
PageSize == 25
Take(s, n) == IF Len(s) <= n THEN s ELSE SubSeq(s, 1, n)
\* the primary keys of a map in ascending order; no run hands out an id
\* above MaxList
Keys(m) == SelectSeq([i \in 1..MaxList |-> i], LAMBDA i : i \in DOMAIN m)

bound_inclusive(after, id) == after = None \/ id >= after[1]
\* after.map(Bound::exclusive): the lower bound of every range scan
bound_exclusive(after, id) == after = None \/ id > after[1]

\* Map::range(after, None, Ascending), values only
range(m, after) ==
  LET ids == SelectSeq(Keys(m), LAMBDA i : bound_exclusive(after, i))
  IN [k \in 1..Len(ids) |-> m[ids[k]]]

\* state.rs: the index values of the secondary indexes; an open challenge is
\* indexed under the address "none"
opponent_idx(challenge) == IF challenge.opponent = None THEN "none" ELSE challenge.opponent[1]
created_by_idx(challenge) == challenge.created_by
player1_idx(game) == game.player1
player2_idx(game) == game.player2
idx_value(idx, entity) ==
  CASE idx = "opponent" -> opponent_idx(entity)
    [] idx = "created_by" -> created_by_idx(entity)
    [] idx = "player1" -> player1_idx(entity)
    [] idx = "player2" -> player2_idx(entity)

\* idx.<idx>.prefix(addr).range(after, None, Ascending), values only
prefix_range(m, idx, addr, after) ==
  LET ids == SelectSeq(Keys(m), LAMBDA i : idx_value(idx, m[i]) = addr /\ bound_exclusive(after, i))
  IN [k \in 1..Len(ids) |-> m[ids[k]]]

\* state.rs merge_iters(a, b, |x, y| x.id <= y.id), id the field the caller
\* compares: repeatedly takes the head of a when its id is at most that of
\* the head of b, else the head of b; the rest of the other when one side is
\* exhausted
RECURSIVE merge_iters(_, _, _)
merge_iters(a, b, id) ==
  IF a = <<>> THEN b
  ELSE IF b = <<>> THEN a
  ELSE IF Head(a)[id] <= Head(b)[id] THEN <<Head(a)>> \o merge_iters(Tail(a), b, id)
  ELSE <<Head(b)>> \o merge_iters(a, Tail(b), id)

Page(items) == [err |-> "ok", items |-> items]
PageErr(e) == [err |-> e, items |-> <<>>]

query_get_challenges_result_UnboundedOpponent(chs, after, player) ==
  IF player = None THEN Page(Take(prefix_range(chs, "opponent", "none", after), PageSize))
  ELSE IF addr_validate(player[1]) # "ok" THEN PageErr("StdError")
  ELSE Page(Take(merge_iters(prefix_range(chs, "created_by", player[1], after),
                             prefix_range(chs, "opponent", player[1], None),
                             "challenge_id"), PageSize))

query_get_challenges_result(chs, after, player) ==
  IF player = None THEN Page(Take(prefix_range(chs, "opponent", "none", after), PageSize))
  ELSE IF addr_validate(player[1]) # "ok" THEN PageErr("StdError")
  ELSE Page(Take(merge_iters(prefix_range(chs, "created_by", player[1], after),
                             prefix_range(chs, "opponent", player[1], after),
                             "challenge_id"), PageSize))

\* msg.rs GameSummary::from(&game)
GameSummary(game) ==
  [game_id |-> game.game_id, player1 |-> game.player1, player2 |-> game.player2, status |-> game.status]
Summaries(gs) == [k \in 1..Len(gs) |-> GameSummary(gs[k])]
unwrap_or(opt, default) == IF opt = None THEN default ELSE opt[1]

query_get_games_result_TakeThenFilter(gs, after, game_over, player) ==
  LET over == unwrap_or(game_over, FALSE)
      keep(g) == over \/ g.status = None
  IN IF player = None THEN Page(Summaries(SelectSeq(Take(range(gs, after), PageSize), keep)))
     ELSE IF addr_validate(player[1]) # "ok" THEN PageErr("StdError")
     ELSE Page(Summaries(SelectSeq(Take(merge_iters(prefix_range(gs, "player1", player[1], after),
                                                    prefix_range(gs, "player2", player[1], after),
                                                    "game_id"), PageSize), keep)))

query_get_games_result(gs, after, game_over, player) ==
  LET over == unwrap_or(game_over, FALSE)
      keep(g) == over \/ g.status = None
  IN IF player = None THEN Page(Take(Summaries(SelectSeq(range(gs, after), keep)), PageSize))
     ELSE IF addr_validate(player[1]) # "ok" THEN PageErr("StdError")
     ELSE Page(Take(Summaries(SelectSeq(merge_iters(prefix_range(gs, "player1", player[1], after),
                                                    prefix_range(gs, "player2", player[1], after),
                                                    "game_id"), keep)), PageSize))

\* env.block.height: the host's clock never runs backwards
NextBlock ==
  /\ height < MaxHeight
  /\ height' = height + 1
  /\ last' = Reply("block", "", 0, "ok")
  /\ UNCHANGED <<store, hist>>

Init ==
  /\ challenges = <<>>
  /\ games = <<>>
  /\ ratings = <<>>
  /\ challenge_count = 0
  /\ game_count = 0
  /\ height = 0
  /\ last = Reply("instantiate", "", 0, "ok")
  /\ consumed = <<>>
  /\ origin = <<>>
  /\ rated = <<>>
  /\ involved = {}

\* The inputs a run draws from: who calls and with which arguments, and how
\* many challenges are created.  PlayInputs follows one challenge with every
\* argument; LobbyInputs follows MaxChallenges challenges with fewer arguments.
AllOpponents == {None} \cup {Some(a) : a \in AddrStrings}
PlayInputs == [max_challenges |-> MaxPlayChallenges, max_games |-> MaxGames, opponents |-> AllOpponents, play_as |-> PlayAs,
               limits |-> BlockLimits, actions |-> Actions, moves |-> MoveStrs, players |-> AddrStrings]
LobbyInputs == [max_challenges |-> MaxChallenges, max_games |-> MaxGames, opponents |-> {None, Some("alice"), Some("bob")}, play_as |-> {None},
                limits |-> {Some(0)}, actions |-> {a \in Actions : a.type = "Resign"}, moves |-> {"e4"}, players |-> {"alice", BadAddr}]
RatingInputs == [max_challenges |-> MaxChallenges, max_games |-> MaxRatedGames, opponents |-> {None, Some("bob")}, play_as |-> {None},
                 limits |-> {Some(0)}, actions |-> {a \in Actions : a.type = "Resign" \/ a.mv \in {"e4", "Qh5#"}}, moves |-> {"e4"}, players |-> {"alice"}]

NextOn(I) ==
  \/ \E s \in Addrs, bl \in I.limits, o \in I.opponents, pa \in I.play_as : challenge_count < I.max_challenges /\ execute_create_challenge(s, bl, o, pa)
  \/ \E s \in Addrs, c \in ChallengeIds : game_count < I.max_games /\ execute_accept_challenge(s, c)
  \/ \E s \in Addrs, c \in ChallengeIds : execute_cancel_challenge(s, c)
  \/ \E g \in GameIds : execute_declare_timeout(g)
  \/ \E s \in Addrs, a \in I.actions, g \in GameIds : execute_turn(s, a, g)
  \/ \E g \in GameIds, p \in I.players, m \in I.moves : query_valid_move(g, p, m)
  \/ \E g \in GameIds, p \in I.players : query_get_turn(g, p)
  \/ NextBlock

Next == NextOn(PlayInputs)
NextLobby == NextOn(LobbyInputs)
NextRating == NextOn(RatingInputs)

Spec == Init /\ [][Next]_vars
SpecLobby == Init /\ [][NextLobby]_vars
SpecRating == Init /\ [][NextRating]_vars

\* ------------------------------------------------------------------ listing runs
\* The stores the listing queries run on: entities 1..n whose participants
\* follow a pattern of one or two kinds, every one a store that creating,
\* cancelling, accepting and timing out reaches.
ListSizes == (0..MaxShort) \cup (PageSize..MaxList)
ChallengeKinds ==
  {[created_by |-> "alice", opponent |-> None], [created_by |-> "alice", opponent |-> Some("bob")],
   [created_by |-> "bob", opponent |-> Some("alice")], [created_by |-> "bob", opponent |-> None],
   [created_by |-> "carol", opponent |-> Some("bob")]}
GameKinds ==
  {[player1 |-> "alice", player2 |-> "bob", status |-> None], [player1 |-> "alice", player2 |-> "bob", status |-> Some("WhiteTimeout")],
   [player1 |-> "bob", player2 |-> "alice", status |-> Some("WhiteTimeout")], [player1 |-> "bob", player2 |-> "carol", status |-> None]}
\* one kind throughout, or a first kind at every period-th entity from
\* entity 1 on and a second kind at the others
Periods == {2, PageSize}
Patterns(K) == {[first |-> k1, rest |-> k2, period |-> p] : k1 \in K, k2 \in K, p \in Periods}
KindAt(pat, i) == IF i % pat.period = 1 THEN pat.first ELSE pat.rest
Cancelled == {{}, {2}}
ChallengeStore(n, pat, gone) ==
  [i \in (1..n) \ gone |-> new_challenge(0, Some(0), i, KindAt(pat, i).created_by, KindAt(pat, i).opponent, None)]
GameStore(n, pat) ==
  [i \in 1..n |-> [block_limit |-> Some(0), block_start |-> 0, fen |-> DEFAULT_FEN, game_id |-> i,
                   player1 |-> KindAt(pat, i).player1, player2 |-> KindAt(pat, i).player2, moves |-> <<>>,
                   status |-> KindAt(pat, i).status, draw_offer |-> None]]
ChallengePlayers(chs) ==
  {chs[c].created_by : c \in DOMAIN chs} \cup {chs[c].opponent[1] : c \in {d \in DOMAIN chs : chs[d].opponent # None}}
GamePlayers(gs) == {gs[g].player1 : g \in DOMAIN gs} \cup {gs[g].player2 : g \in DOMAIN gs}

InitChallengePages ==
  /\ \E n \in ListSizes, pat \in Patterns(ChallengeKinds), gone \in Cancelled :
       /\ challenges = ChallengeStore(n, pat, gone \cap (1..n))
       /\ consumed = [c \in gone \cap (1..n) |-> <<"cancelled">>]
       /\ involved = ChallengePlayers(ChallengeStore(n, pat, {}))
       /\ challenge_count = n
  /\ games = <<>>
  /\ game_count = 0
  /\ origin = <<>>
  /\ rated = <<>>
  /\ ratings = [a \in involved |-> DefaultRating]
  /\ height = MaxHeight
  /\ last = Reply("instantiate", "", 0, "ok")

InitGamePages ==
  /\ \E n \in ListSizes, pat \in Patterns(GameKinds) :
       /\ games = GameStore(n, pat)
       /\ game_count = n
       /\ consumed = [c \in 1..n |-> <<"accepted">>]
       /\ origin = [g \in 1..n |-> g]
       /\ rated = [g \in 1..n |-> 0]
       /\ involved = GamePlayers(GameStore(n, pat))
       /\ challenge_count = n
  /\ challenges = <<>>
  /\ ratings = [a \in involved |-> DefaultRating]
  /\ height = MaxHeight
  /\ last = Reply("instantiate", "", 0, "ok")

\* cursors near the start of a listing and around the end of its first page
AfterInputs == {None} \cup {Some(k) : k \in (0..MaxShort) \cup (PageSize..MaxList)}
PlayerInputs == {None} \cup {Some(a) : a \in AddrStrings}
GameOverInputs == {None, Some(TRUE), Some(FALSE)}

query_get_challenges(after, player) ==
  /\ last' = [op |-> "get_challenges", after |-> after, player |-> player,
              res |-> query_get_challenges_result(challenges, after, player)]
  /\ UNCHANGED <<store, hist, height>>

query_get_games(after, game_over, player) ==
  /\ last' = [op |-> "get_games", after |-> after, game_over |-> game_over, player |-> player,
              res |-> query_get_games_result(games, after, game_over, player)]
  /\ UNCHANGED <<store, hist, height>>

\* A client pages through a listing: it starts with no cursor, then calls
\* the query with the id of the last item of the page before, and stops at
\* an empty page.
PagingStart(listing, game_over, player) ==
  /\ last' = [op |-> "paging", listing |-> listing, game_over |-> game_over, player |-> player,
              after |-> None, seen |-> <<>>, calls |-> 0, done |-> FALSE]
  /\ UNCHANGED <<store, hist, height>>

PageIds(listing, game_over, player, after) ==
  IF listing = "challenges"
  THEN LET items == query_get_challenges_result(challenges, after, player).items
       IN [k \in 1..Len(items) |-> items[k].challenge_id]
  ELSE LET items == query_get_games_result(games, after, game_over, player).items
       IN [k \in 1..Len(items) |-> items[k].game_id]

PagingNext ==
  /\ last.op = "paging" /\ ~last.done /\ last.calls < MaxCalls
  /\ LET ids == PageIds(last.listing, last.game_over, last.player, last.after)
     IN last' = [last EXCEPT !.calls = @ + 1, !.done = (ids = <<>>), !.seen = @ \o ids,
                             !.after = IF ids = <<>> THEN @ ELSE Some(ids[Len(ids)])]
  /\ UNCHANGED <<store, hist, height>>

NextChallengePages ==
  \E after \in AfterInputs, player \in PlayerInputs : query_get_challenges(after, player)
NextGamePages ==
  \E after \in AfterInputs, game_over \in GameOverInputs, player \in PlayerInputs : query_get_games(after, game_over, player)
NextPaging ==
  \/ \E player \in PlayerInputs : PagingStart("challenges", None, player)
  \/ \E game_over \in GameOverInputs, player \in PlayerInputs : PagingStart("games", game_over, player)
  \/ PagingNext

SpecChallengePages == InitChallengePages /\ [][NextChallengePages]_vars
SpecGamePages == InitGamePages /\ [][NextGamePages]_vars
SpecPaging == (InitChallengePages \/ InitGamePages) /\ [][NextPaging]_vars

\* ------------------------------------------------------------------ claims
Accepted == last.op = "accept_challenge" /\ last.res = "ok"
Terminal(g) == g \in DOMAIN games /\ games[g].status # None

\* C1: a successful AcceptChallenge(c) at clock value now removes challenge c
\* (GetChallenge(c) is then not-found) and adds exactly one game, leaving the
\* others as they were; the new game has block_start = now, the challenge's
\* block_limit, no moves, no status, and its players are the challenge's
\* creator and the acceptor.
C1_AcceptCreatesOneGame ==
  [][Accepted' =>
       LET c == last'.id
           fresh == DOMAIN games' \ DOMAIN games
       IN /\ c \in DOMAIN challenges
          /\ query_get_challenge(challenges', c) = "StdError"
          /\ Cardinality(fresh) = 1
          /\ \A g \in DOMAIN games : g \in DOMAIN games' /\ games'[g] = games[g]
          /\ \A g \in fresh :
               /\ games'[g].block_start = height
               /\ games'[g].block_limit = challenges[c].block_limit
               /\ games'[g].moves = <<>>
               /\ games'[g].status = None
               /\ games'[g].player1 # games'[g].player2
               /\ {games'[g].player1, games'[g].player2} = {challenges[c].created_by, last'.caller}]_vars

\* C1 witness: a challenge created at an earlier block was just accepted
C1_Witness ==
  /\ Accepted
  /\ last.id \notin DOMAIN challenges
  /\ \E g \in DOMAIN games : games[g].moves = <<>> /\ games[g].block_start = height /\ height > 0 /\ games[g].block_limit # None

\* C2: a challenge id is consumed at most once: an Accept or Cancel of an id
\* that an earlier Accept or Cancel consumed fails with ChallengeNotFound, so
\* no challenge is the origin of two games and a cancelled one of none.
C2_ConsumedAtMostOnce ==
  /\ [](\A c \in DOMAIN consumed :
          /\ Len(consumed[c]) = 1
          /\ c \notin DOMAIN challenges
          /\ Cardinality({g \in DOMAIN origin : origin[g] = c}) = (IF consumed[c] = <<"accepted">> THEN 1 ELSE 0))
  /\ [][(last'.op \in {"accept_challenge", "cancel_challenge"} /\ last'.id \in DOMAIN consumed)
          => last'.res = "ChallengeNotFound"]_vars

\* C2 witness: a second attempt on a consumed challenge, with another game
\* already made from another challenge
C2_Witness ==
  /\ last.op \in {"accept_challenge", "cancel_challenge"}
  /\ last.id \in DOMAIN consumed
  /\ last.res = "ChallengeNotFound"
  /\ \E c \in DOMAIN consumed : consumed[c] = <<"cancelled">>
  /\ \E c \in DOMAIN consumed : consumed[c] = <<"accepted">>

\* C3: once a game has a status, every Turn and every DeclareTimeout on it
\* fails as game-over, and no step changes the stored game.
C3_FinishedGameIsFrozen ==
  [][\A g \in DOMAIN games : games[g].status # None =>
        /\ g \in DOMAIN games' /\ games'[g] = games[g]
        /\ (last'.op \in {"turn", "declare_timeout"} /\ last'.id = g) => last'.res = "GameAlreadyOver"]_vars

\* C3 witness: a DeclareTimeout was refused on a game that a Turn had ended
\* whose budget has run out
C3_Witness ==
  /\ last.op = "declare_timeout" /\ last.res = "GameAlreadyOver"
  /\ Terminal(last.id)
  /\ games[last.id].block_limit # None
  /\ height - last_tick(games[last.id]) > games[last.id].block_limit[1]

\* C4: the operation that gives a game its status, Turn or DeclareTimeout,
\* writes the rating update for that outcome to both players' ratings, and a
\* game has had the update applied once if it has a status, never before.
C4_RatedOncePerFinishedGame ==
  /\ [][\A g \in DOMAIN games : (games[g].status = None /\ games'[g].status # None) =>
           ratings' = update_players_rating(ratings, games'[g], outcome_of(games'[g].status[1]))]_vars
  /\ [](\A g \in DOMAIN games : rated[g] = (IF games[g].status # None THEN 1 ELSE 0))

\* C5: an existing rating changes only in a successful Turn or DeclareTimeout
\* that moves a game from ongoing to finished, and only for that game's two
\* players.
C5_RatingsChangeOnlyAtGameEnd ==
  [][\A a \in DOMAIN ratings : (a \in DOMAIN ratings' /\ ratings'[a] # ratings[a]) =>
        /\ last'.op \in {"turn", "declare_timeout"} /\ last'.res = "ok"
        /\ last'.id \in DOMAIN games
        /\ games[last'.id].status = None /\ games'[last'.id].status # None
        /\ a \in {games[last'.id].player1, games[last'.id].player2}]_vars

\* C5 witness: a game ended and moved its players' ratings while a third
\* player holds a rating, after a turn that left the game ongoing
C5_Witness ==
  \E g \in DOMAIN games :
    /\ games[g].status # None /\ Len(games[g].moves) = 2
    /\ ratings[games[g].player1] # DefaultRating
    /\ \E a \in DOMAIN ratings : a \notin {games[g].player1, games[g].player2} /\ ratings[a] = DefaultRating

\* C6: whoever created a challenge, was named opponent of one or accepted one
\* has a rating, as have both players of every game, and no rating is ever
\* removed.
C6_RatingsDefined ==
  /\ [](involved \subseteq DOMAIN ratings)
  /\ [](\A g \in DOMAIN games : {games[g].player1, games[g].player2} \subseteq DOMAIN ratings)
  /\ [][DOMAIN ratings \subseteq DOMAIN ratings']_vars

\* C6 witness: a creator, a named opponent and an acceptor, all different
C6_Witness ==
  /\ involved = Addrs
  /\ \E c \in DOMAIN challenges : challenges[c].opponent # None
  /\ DOMAIN games # {}

\* C7: no stored challenge names its creator as opponent: a CreateChallenge
\* whose opponent is the caller fails with CannotPlaySelf and stores nothing,
\* and a stored challenge is never modified.
C7_NoSelfChallenge ==
  /\ [](\A c \in DOMAIN challenges : challenges[c].opponent # Some(challenges[c].created_by))
  /\ [][\A c \in DOMAIN challenges : c \in DOMAIN challenges' => challenges'[c] = challenges[c]]_vars
  /\ [][\A s \in Addrs, bl \in LobbyInputs.limits, pa \in LobbyInputs.play_as :
          execute_create_challenge(s, bl, Some(s), pa) => (last'.res = "CannotPlaySelf" /\ UNCHANGED store)]_vars

\* C7 witness: a self-challenge was refused while a directed challenge is stored
C7_Witness ==
  /\ last.op = "create_challenge" /\ last.res = "CannotPlaySelf"
  /\ \E c \in DOMAIN challenges : challenges[c].opponent # None

\* C8: AcceptChallenge fails with ChallengeNotFound for an id that is not
\* stored, with CannotPlaySelf for the creator (directed or not), with
\* NotYourChallenge for anyone but the named opponent, succeeds otherwise, and
\* a failure changes nothing.
C8_AcceptErrors ==
  [][last'.op = "accept_challenge" =>
       LET c == last'.id
           a == last'.caller
       IN /\ (c \notin DOMAIN challenges) => last'.res = "ChallengeNotFound"
          /\ (c \in DOMAIN challenges /\ challenges[c].created_by = a) => last'.res = "CannotPlaySelf"
          /\ (c \in DOMAIN challenges /\ challenges[c].created_by # a /\ challenges[c].opponent \notin {None, Some(a)})
                => last'.res = "NotYourChallenge"
          /\ (c \in DOMAIN challenges /\ challenges[c].created_by # a /\ challenges[c].opponent \in {None, Some(a)})
                => last'.res = "ok"
          /\ last'.res # "ok" => UNCHANGED store]_vars

\* C8 witness: the creator of a directed challenge tried to accept it
C8_Witness ==
  /\ last.op = "accept_challenge" /\ last.res = "CannotPlaySelf"
  /\ challenges[last.id].opponent # None

\* C9: CancelChallenge succeeds exactly for the creator of a stored challenge
\* and then removes that challenge only; it fails with ChallengeNotFound for
\* an id that is not stored and with NotYourChallenge for any other caller,
\* and a failure changes nothing.
C9_CancelErrors ==
  [][last'.op = "cancel_challenge" =>
       LET c == last'.id
           a == last'.caller
       IN /\ (c \notin DOMAIN challenges) => last'.res = "ChallengeNotFound"
          /\ (c \in DOMAIN challenges /\ challenges[c].created_by # a) => last'.res = "NotYourChallenge"
          /\ (c \in DOMAIN challenges /\ challenges[c].created_by = a) => last'.res = "ok"
          /\ last'.res = "ok" =>
               /\ DOMAIN challenges' = DOMAIN challenges \ {c}
               /\ \A x \in DOMAIN challenges' : challenges'[x] = challenges[x]
               /\ UNCHANGED <<games, ratings>>
          /\ last'.res # "ok" => UNCHANGED store]_vars

\* C9 witness: the named opponent of a challenge tried to cancel it
C9_Witness ==
  /\ last.op = "cancel_challenge" /\ last.res = "NotYourChallenge"
  /\ challenges[last.id].opponent = Some(last.caller)

\* C10: ValidMove and GetTurn answer true or false for every input.
C10_QueriesNeverFail ==
  last.op \in {"valid_move", "get_turn"} => last.res \in {"true", "false"}

Max(a, b) == IF a >= b THEN a ELSE b
\* the tick the running timeout window of game g is measured from
Baseline(g) ==
  IF g.moves = <<>> THEN g.block_start ELSE Max(g.block_start, g.moves[Len(g.moves)][1])
Ongoing(gs, id) == id \in DOMAIN gs /\ gs[id].status = None
DeclaredOn(id) == last'.op = "declare_timeout" /\ last'.id = id /\ Ongoing(games, id)

\* C11: DeclareTimeout on an ongoing game at clock value now fails with
\* GameNotTimedOut and changes nothing when the game has no block_limit or
\* when now minus the later of block_start and the last move's tick is at
\* most block_limit; it succeeds as soon as that difference exceeds
\* block_limit, and the status becomes WhiteTimeout when player1 is to move
\* and BlackTimeout when player2 is to move.
C11_TimeoutBoundary ==
  [][\A id \in GameIds : DeclaredOn(id) =>
       LET g == games[id]
           over == g.block_limit # None /\ height - Baseline(g) > g.block_limit[1]
       IN IF over
          THEN /\ last'.res = "ok"
               /\ games' = [games EXCEPT ![id].status =
                              Some(IF get_turn(g, g.player1) = "true" THEN "WhiteTimeout" ELSE "BlackTimeout")]
               /\ get_turn(g, g.player1) = "true" \/ get_turn(g, g.player2) = "true"
          ELSE /\ last'.res = "GameNotTimedOut"
               /\ UNCHANGED store]_vars
\* player2 ran out of time: a move was made, the clock passed the budget
C11_Witness ==
  /\ last.op = "declare_timeout" /\ last.res = "ok"
  /\ games[last.id].status = Some("BlackTimeout")
  /\ Len(games[last.id].moves) = 1
\* a declaration at exactly the budget is refused
C11_WitnessRefused ==
  /\ last.op = "declare_timeout" /\ last.res = "GameNotTimedOut"
  /\ games[last.id].block_limit # None
  /\ height - Baseline(games[last.id]) = games[last.id].block_limit[1]
  /\ games[last.id].moves # <<>>

TerminalTags ==
  {"WhiteCheckmates", "BlackCheckmates", "WhiteResigns", "BlackResigns", "WhiteTimeout",
   "BlackTimeout", "DrawAccepted", "DrawDeclared", "Stalemate"}
\* the outcome from player1's perspective
Player1Outcome(tag) ==
  CASE tag \in {"WhiteCheckmates", "BlackResigns", "BlackTimeout"} -> "WIN"
    [] tag \in {"BlackCheckmates", "WhiteResigns", "WhiteTimeout"} -> "LOSS"
    [] tag \in {"DrawAccepted", "DrawDeclared", "Stalemate"} -> "DRAW"
TurnEnded(id) ==
  /\ last'.op = "turn" /\ last'.res = "ok" /\ last'.id = id
  /\ Ongoing(games, id) /\ games'[id].status # None

\* C12: the rating update takes its outcome from player1's perspective:
\* WhiteCheckmates, BlackResigns and BlackTimeout are a Win, BlackCheckmates,
\* WhiteResigns and WhiteTimeout a Loss, DrawAccepted, DrawDeclared and
\* Stalemate a Draw; the first rating passed to and returned by the update is
\* player1's and the second is player2's.
C12_OutcomeFromPlayer1 ==
  /\ [](\A tag \in TerminalTags : outcome_of(tag) = Player1Outcome(tag))
  /\ [][\A id \in GameIds : TurnEnded(id) =>
          LET g == games'[id]
              o == Player1Outcome(g.status[1])
              r == elo(ratings[g.player1], ratings[g.player2], o)
          IN /\ ratings'[g.player1] = r[1]
             /\ ratings'[g.player2] = r[2]
             /\ o = "WIN" => ratings'[g.player1] > ratings[g.player1] /\ ratings'[g.player2] < ratings[g.player2]
             /\ o = "LOSS" => ratings'[g.player1] < ratings[g.player1] /\ ratings'[g.player2] > ratings[g.player2]
             /\ o = "DRAW" /\ ratings[g.player1] = ratings[g.player2] => ratings'[g.player1] = ratings[g.player1] /\ ratings'[g.player2] = ratings[g.player2]]_vars
\* player2 resigned and player1's rating went up
C12_Witness ==
  /\ last.op = "turn" /\ last.res = "ok"
  /\ last.id \in DOMAIN games
  /\ games[last.id].status = Some("BlackResigns")
  /\ ratings[games[last.id].player1] > DefaultRating
  /\ ratings[games[last.id].player2] < DefaultRating

\* with no preference, whether the creator plays White is decided by the
\* height alone: every creator/acceptor pair gets the same answer
HeightAloneDecides ==
  \A h \in 0..MaxHeight : \A c1, a1, c2, a2 \in Addrs :
    (c1 # a1 /\ c2 # a2) =>
      /\ get_player_order(c1, a1, None, h) \in {<<c1, a1>>, <<a1, c1>>}
      /\ (get_player_order(c1, a1, None, h) = <<c1, a1>>) = (get_player_order(c2, a2, None, h) = <<c2, a2>>)

\* C13: the colors of a new game depend only on the creator, the acceptor,
\* play_as and the accepting call's block height: with play_as White the
\* creator is player1 and the acceptor player2, with Black the acceptor is
\* player1 and the creator player2, and with play_as absent the order is a
\* fixed function of that height alone, so equal inputs give equal orders.
C13_ColorAssignment ==
  /\ []HeightAloneDecides
  /\ [][Accepted' /\ last'.id \in DOMAIN challenges /\ game_count' # game_count =>
          LET ch == challenges[last'.id]
              g == games'[game_count']
              creator == ch.created_by
              acceptor == last'.caller
          IN /\ ch.play_as = Some("White") => g.player1 = creator /\ g.player2 = acceptor
             /\ ch.play_as = Some("Black") => g.player1 = acceptor /\ g.player2 = creator
             /\ <<g.player1, g.player2>> = get_player_order(creator, acceptor, ch.play_as, height)]_vars
\* a challenge accepted at height 1 whose acceptor plays White
C13_Witness ==
  /\ Accepted
  /\ \E g \in DOMAIN games :
       /\ origin[g] = last.id /\ games[g].moves = <<>> /\ games[g].status = None
       /\ games[g].block_start = 1 /\ games[g].player1 = last.caller
       /\ consumed[last.id] = <<"accepted">> /\ games[g].player2 # last.caller

\* the accepted Moves in the log of game g
MovesMade(g) == Len(SelectSeq(g.moves, LAMBDA e : e[2].type = "Move"))
\* the color-to-move: player1 first, then the other player after each Move
ToMove(g) == IF MovesMade(g) % 2 = 0 THEN g.player1 ELSE g.player2
MoveActions == {a \in Actions : a.type = "Move"}

\* C14: turn ownership alternates strictly: player1 is to move in a new game
\* and the other player after each accepted Move; a Move by a caller who is
\* not the color-to-move, a non-participant included, fails and leaves the
\* game as it was; GetTurn(game, caller) is true exactly when the game is
\* ongoing and caller is the color-to-move.
C14_TurnsAlternate ==
  /\ [](\A id \in DOMAIN games : Ongoing(games, id) =>
          \A s \in Addrs : s # ToMove(games[id]) =>
            \A a \in MoveActions : turn_update(games, s, height, a, id) = Err("NotYourTurn", games[id]))
  /\ [][last'.op = "turn" =>
          /\ last'.res # "ok" => UNCHANGED store
          /\ (last'.res = "ok" /\ MovesMade(games'[last'.id]) # MovesMade(games[last'.id])) =>
               /\ last'.caller = ToMove(games[last'.id])
               /\ MovesMade(games'[last'.id]) = MovesMade(games[last'.id]) + 1
               /\ games'[last'.id].status = None => ToMove(games'[last'.id]) \notin {last'.caller}]_vars
  /\ [][last'.op = "get_turn" =>
          (last'.res = "true") = (Ongoing(games, last'.id) /\ last'.caller = ToMove(games[last'.id]))]_vars
\* after White's first move GetTurn answers true to player2
C14_Witness ==
  /\ last.op = "get_turn" /\ last.res = "true"
  /\ last.caller = games[last.id].player2
  /\ MovesMade(games[last.id]) = 1 /\ games[last.id].moves[1][1] \in 0..MaxHeight

\* the challenges created so far: the stored ones and the consumed ones
Issued == DOMAIN challenges \cup DOMAIN consumed

ChallengeIdsOf(items) == [k \in 1..Len(items) |-> items[k].challenge_id]
GameIdsOf(items) == [k \in 1..Len(items) |-> items[k].game_id]
Range(s) == {s[k] : k \in 1..Len(s)}
NoDuplicate(s) == Cardinality(Range(s)) = Len(s)
\* the two index scans of one player share no entity
DisjointIndexes(p) ==
  /\ Range(ChallengeIdsOf(prefix_range(challenges, "created_by", p, None)))
       \cap Range(ChallengeIdsOf(prefix_range(challenges, "opponent", p, None))) = {}
  /\ Range(GameIdsOf(prefix_range(games, "player1", p, None)))
       \cap Range(GameIdsOf(prefix_range(games, "player2", p, None))) = {}

\* C19: every stored game has player1 different from player2; game ids and
\* challenge ids are unique and handed out in strictly increasing order, and
\* the id of a cancelled or accepted challenge is never handed out again;
\* hence no game or challenge is in both secondary indexes of one player and
\* a merged per-player listing has no duplicate id.
C19_DistinctPlayersUniqueIds ==
  /\ [](/\ \A g \in DOMAIN games : games[g].player1 # games[g].player2 /\ games[g].game_id = g
        /\ \A c \in DOMAIN challenges : challenges[c].challenge_id = c
        /\ DOMAIN challenges \cap DOMAIN consumed = {}
        /\ \A p \in Addrs :
             /\ DisjointIndexes(p)
             /\ NoDuplicate(ChallengeIdsOf(query_get_challenges_result(challenges, None, Some(p)).items))
             /\ NoDuplicate(GameIdsOf(query_get_games_result(games, None, Some(TRUE), Some(p)).items)))
  /\ [][/\ (last' # last /\ last'.op = "create_challenge" /\ last'.res = "ok") =>
             /\ \A c \in Issued : last'.id > c
             /\ Issued' = Issued \cup {last'.id}
        /\ (last' # last /\ Accepted') =>
             \E g \in DOMAIN games' :
               /\ DOMAIN games' = DOMAIN games \cup {g}
               /\ \A h \in DOMAIN games : g > h
               /\ \A h \in DOMAIN games : games'[h].game_id = games[h].game_id
        /\ Issued \subseteq Issued' /\ DOMAIN games \subseteq DOMAIN games']_vars
\* one player is White in the first game and Black in the second
C19_Witness ==
  /\ DOMAIN games = {1, 2}
  /\ games[1].player1 = games[2].player2
  /\ Len(query_get_games_result(games, None, Some(TRUE), Some(games[1].player1)).items) = 2
  /\ DOMAIN consumed = {1, 2}

Min(a, b) == IF a <= b THEN a ELSE b
Above(after, id) == after = None \/ id > after[1]
StrictlyAscending(ids) == \A k \in 1..(Len(ids) - 1) : ids[k] < ids[k + 1]
\* ids lists the lowest elements of M, up to a page of them
LowestOf(ids, M) ==
  /\ Range(ids) \subseteq M
  /\ Len(ids) = Min(PageSize, Cardinality(M))
  /\ \A i \in Range(ids) : \A m \in M \ Range(ids) : i < m
\* the stored challenges a listing for player is about
MatchingChallenges(player) ==
  {c \in DOMAIN challenges :
     IF player = None THEN challenges[c].opponent = None
     ELSE challenges[c].created_by = player[1] \/ challenges[c].opponent = player}

\* C15: GetChallenges(after, player) returns at most 25 stored challenges in
\* strictly ascending id order, all above after when after is given: with
\* player given the lowest-id challenges among exactly those player created
\* or is the named opponent of, with player absent the lowest-id challenges
\* among exactly the open ones, never a directed challenge.
C15_GetChallengesPage ==
  (last.op = "get_challenges" /\ last.res.err = "ok") =>
    LET items == last.res.items
        ids == ChallengeIdsOf(items)
    IN /\ Len(items) <= PageSize
       /\ \A k \in 1..Len(items) : ids[k] \in DOMAIN challenges /\ items[k] = challenges[ids[k]]
       /\ StrictlyAscending(ids)
       /\ LowestOf(ids, {c \in MatchingChallenges(last.player) : Above(last.after, c)})
       /\ last.player = None => \A k \in 1..Len(items) : items[k].opponent = None
\* a full page for one player after a cursor, taken from both indexes, with
\* more matching challenges left
C15_Witness ==
  /\ last.op = "get_challenges" /\ last.res.err = "ok"
  /\ last.player = Some("alice") /\ last.after = Some(1)
  /\ Len(last.res.items) = PageSize
  /\ Cardinality({c \in MatchingChallenges(last.player) : c > 1}) > PageSize
  /\ \E j, k \in 1..PageSize :
       last.res.items[j].created_by = "alice" /\ last.res.items[k].opponent = Some("alice")
\* the open listing leaves out directed challenges stored among the open ones
C15_WitnessOpen ==
  /\ last.op = "get_challenges" /\ last.player = None /\ last.after = None
  /\ Len(last.res.items) = PageSize
  /\ \E c \in DOMAIN challenges : challenges[c].opponent # None /\ c < last.res.items[PageSize].challenge_id

\* the stored games a listing for game_over and player is about
MatchingGames(game_over, player) ==
  {g \in DOMAIN games :
     /\ game_over = Some(TRUE) \/ games[g].status = None
     /\ player = None \/ player[1] \in {games[g].player1, games[g].player2}}

\* C16: GetGames(after, game_over, player) returns at most 25 summaries of
\* stored games in ascending id order, all above after; with game_over absent
\* or false only ongoing games, with game_over true finished ones as well;
\* with player given only games player is player1 or player2 of.  The status
\* filter comes before the truncation: the page is the 25 lowest-id matching
\* games.
C16_GetGamesPage ==
  (last.op = "get_games" /\ last.res.err = "ok") =>
    LET items == last.res.items
        ids == GameIdsOf(items)
    IN /\ Len(items) <= PageSize
       /\ \A k \in 1..Len(items) :
            /\ ids[k] \in DOMAIN games
            /\ items[k].player1 = games[ids[k]].player1 /\ items[k].player2 = games[ids[k]].player2
            /\ items[k].status = games[ids[k]].status
            /\ last.game_over # Some(TRUE) => games[ids[k]].status = None
            /\ last.player # None => last.player[1] \in {games[ids[k]].player1, games[ids[k]].player2}
       /\ StrictlyAscending(ids)
       /\ LowestOf(ids, {g \in MatchingGames(last.game_over, last.player) : Above(last.after, g)})
\* a full page of ongoing games of one player that reaches past the first 25
\* games because a finished game of that player lies among them
C16_Witness ==
  /\ last.op = "get_games" /\ last.res.err = "ok"
  /\ last.game_over = None /\ last.player = Some("alice")
  /\ Len(last.res.items) = PageSize
  /\ last.res.items[PageSize].game_id > PageSize
  /\ \E g \in 1..PageSize : games[g].status # None /\ "alice" \in {games[g].player1, games[g].player2}

\* the entities a paging run is about
PagingMatches ==
  IF last.listing = "challenges" THEN MatchingChallenges(last.player)
  ELSE MatchingGames(last.game_over, last.player)

\* C18: paging through GetGames or GetChallenges for a fixed store and
\* filter, from no cursor, passing the id of the last item of each page as
\* the next after, until a page is empty, returns every matching entity
\* exactly once and in ascending id order across the pages.
C18_PagingVisitsEachOnce ==
  (last.op = "paging" /\ (last.player = None \/ last.player[1] \in Addrs)) =>
    LET M == PagingMatches
        full == last.calls - (IF last.done THEN 1 ELSE 0)
    IN /\ StrictlyAscending(last.seen)
       /\ Range(last.seen) \subseteq M
       /\ Len(last.seen) = Min(full * PageSize, Cardinality(M))
       /\ \A i \in Range(last.seen) : \A m \in M \ Range(last.seen) : i < m
       /\ last.done => Range(last.seen) = M /\ Len(last.seen) = Cardinality(M)
       /\ (~last.done /\ last.calls > 0) => (last.calls - 1) * PageSize < Cardinality(M)
\* three calls: a full page, a second page of both roles, an empty page
C18_Witness ==
  /\ last.op = "paging" /\ last.done /\ last.calls = 3
  /\ last.player = Some("alice") /\ last.listing = "games" /\ last.game_over = Some(TRUE)
  /\ Len(last.seen) > PageSize
  /\ \E g, h \in Range(last.seen) : games[g].player1 = "alice" /\ games[h].player2 = "alice"
====
